---- MODULE Spec2Model ----
(***************************************************************************)
(* Route economics engine of modules/route_management.py (RouteEconomics). *)
(* The persisted catalogue (airports, routes, route_extended_data) is the  *)
(* state; every public calculation is an action that records its return    *)
(* value (a report, an {"error": ...} dict, or an escaping exception).     *)
(* The route_assignments and fleet tables are written by                    *)
(* assign_aircraft_to_route and by the assignment endpoints of flask_app.py.*)
(*                                                                         *)
(* Python floats are modelled as exact rationals [n, d] in lowest terms    *)
(* with d > 0; None is the value with d = 0 and n = 0, float('-inf') the   *)
(* value with d = 0 and n = -1.                                            *)
(***************************************************************************)
EXTENDS Integers, Sequences, FiniteSets, TLC

VARIABLES airports, routes, route_extended_data, route_assignments, fleet, today, pilots,
          connection, logbook, achievements, threads, result

vars == <<airports, routes, route_extended_data, route_assignments, fleet, today, pilots,
          connection, logbook, achievements, threads, result>>

(***************************************************************************)
(* Exact rational arithmetic standing for Python float arithmetic.         *)
(***************************************************************************)
Abs(x) == IF x < 0 THEN -x ELSE x

RECURSIVE GCD(_, _)
GCD(a, b) == IF b = 0 THEN a ELSE GCD(b, a % b)

R(n, d) ==
    LET g == GCD(Abs(n), Abs(d))
        s == IF d < 0 THEN -1 ELSE 1
    IN  [n |-> s * (n \div g), d |-> s * (d \div g)]

I(k) == [n |-> k, d |-> 1]

None == [n |-> 0, d |-> 0]

NegInf == [n |-> -1, d |-> 0]

RMul(a, b) ==
    LET g1 == GCD(Abs(a.n), b.d)
        g2 == GCD(Abs(b.n), a.d)
    IN  IF a.n = 0 \/ b.n = 0 THEN I(0)
        ELSE [n |-> (a.n \div g1) * (b.n \div g2),
              d |-> (a.d \div g2) * (b.d \div g1)]

RNeg(a) == [n |-> -a.n, d |-> a.d]

RInv(a) == IF a.n < 0 THEN [n |-> -a.d, d |-> -a.n] ELSE [n |-> a.d, d |-> a.n]

RDiv(a, b) == RMul(a, RInv(b))

RAdd(a, b) ==
    LET g == GCD(a.d, b.d)
    IN  R(a.n * (b.d \div g) + b.n * (a.d \div g), (a.d \div g) * b.d)

RSub(a, b) == RAdd(a, RNeg(b))

\* a < b; float('-inf') is below every finite value and not below itself
RLt(a, b) ==
    IF b = NegInf THEN FALSE
    ELSE IF a = NegInf THEN TRUE
    ELSE LET g == GCD(a.d, b.d)
             wa == a.n \div a.d
             wb == b.n \div b.d
         IN  IF wa # wb THEN wa < wb
             ELSE (a.n % a.d) * (b.d \div g) < (b.n % b.d) * (a.d \div g)

RLe(a, b) == a = b \/ RLt(a, b)

RMax(a, b) == IF RLt(a, b) THEN b ELSE a

RMin(a, b) == IF RLt(b, a) THEN b ELSE a

IsZero(a) == a.d # 0 /\ a.n = 0

IsFinite(a) == a.d > 0

\* Python truthiness of an optional float: None and 0.0 are falsy
Truthy(a) == a.d # 0 /\ a.n # 0

(***************************************************************************)
(* dict.get(key, default) on an aircraft spec: a spec is a function whose  *)
(* domain is the set of keys present.                                      *)
(***************************************************************************)
SpecGet(spec, key, default) == IF key \in DOMAIN spec THEN spec[key] ELSE default

(***************************************************************************)
(* The row fetched by the LEFT JOIN of routes and route_extended_data:     *)
(* columns of e are NULL (None) when the route has no extended row.        *)
(***************************************************************************)
HasRoute(route_id) == route_id \in DOMAIN routes

HasExtended(route_id) == route_id \in DOMAIN route_extended_data

demand_multipliers ==
    [very_low |-> R(3, 10), low |-> R(5, 10), medium |-> R(7, 10),
     high |-> R(85, 100), very_high |-> I(1)]

\* DemandLevel(route_data[8]) if route_data[8] else DemandLevel.MEDIUM
BaseDemand(route_id) ==
    IF HasExtended(route_id) THEN route_extended_data[route_id].base_demand
    ELSE "medium"

\* an impact that grows with the number of competitors
CompetitionImpact_Rewarding(competition) ==
    RMin(I(1), RAdd(R(4, 10), RMul(I(competition), R(8, 100))))

\* max(0.4, 1.0 - (competition * 0.08))
CompetitionImpact(competition) ==
    RMax(R(4, 10), RSub(I(1), RMul(I(competition), R(8, 100))))

\* market_fare / fare_economy if fare_economy > 0 else 1.0
PriceSensitivity(market_fare, fare_economy) ==
    IF RLt(I(0), fare_economy) THEN RDiv(market_fare, fare_economy) ELSE I(1)

\* min(1.2, max(0.6, price_sensitivity))
PriceImpact(market_fare, fare_economy) ==
    RMin(R(12, 10), RMax(R(6, 10), PriceSensitivity(market_fare, fare_economy)))

\* the load factor without its final clamp
ExpectedLoadFactor_Unclamped(base_demand, competition, market_fare, fare_economy) ==
    RMul(RMul(RMul(R(75, 100), demand_multipliers[base_demand]),
              CompetitionImpact(competition)),
         PriceImpact(market_fare, fare_economy))

\* min(0.95, max(0.30, 0.75 * multiplier * competition_impact * price_impact))
ExpectedLoadFactor(base_demand, competition, market_fare, fare_economy) ==
    LET base_load_factor == R(75, 100)
        raw == RMul(RMul(RMul(base_load_factor, demand_multipliers[base_demand]),
                         CompetitionImpact(competition)),
                    PriceImpact(market_fare, fare_economy))
    IN  RMin(R(95, 100), RMax(R(30, 100), raw))

\* a month of exactly four weeks
FlightsPerMonth_FourWeeks(frequency_weekly) == I(frequency_weekly * 4)

\* frequency_weekly * 4.33
FlightsPerMonth(frequency_weekly) == RMul(I(frequency_weekly), R(433, 100))

calculate_route_revenue(route_id, aircraft_capacity, frequency_weekly, fare_economy, fare_business, business_ratio) ==
    IF ~HasRoute(route_id) THEN [kind |-> "error", error |-> "Route not found"]
    ELSE
    LET competition == routes[route_id].competition_level
        market_fare == routes[route_id].base_ticket_price
        expected_load_factor ==
            ExpectedLoadFactor(BaseDemand(route_id), competition, market_fare, fare_economy)
        flights_per_month == FlightsPerMonth(frequency_weekly)
        passengers_per_flight == RMul(I(aircraft_capacity), expected_load_factor)
        business_passengers == RMul(passengers_per_flight, business_ratio)
        economy_passengers == RMul(passengers_per_flight, RSub(I(1), business_ratio))
        monthly_revenue ==
            IF Truthy(fare_business) /\ RLt(I(0), business_ratio)
            THEN RMul(RAdd(RMul(economy_passengers, fare_economy),
                           RMul(business_passengers, fare_business)),
                      flights_per_month)
            ELSE RMul(RMul(passengers_per_flight, fare_economy), flights_per_month)
    IN  [kind |-> "ok",
         expected_load_factor |-> expected_load_factor,
         passengers_per_flight |-> passengers_per_flight,
         flights_per_month |-> flights_per_month,
         monthly_passengers |-> RMul(passengers_per_flight, flights_per_month),
         monthly_revenue |-> monthly_revenue,
         competition_impact |-> CompetitionImpact(competition),
         price_impact |-> PriceImpact(market_fare, fare_economy)]

\* SELECT landing_fee_base, gate_cost_per_hour FROM airports WHERE icao IN (?, ?)
AirportCostRows(departure_airport, arrival_airport) ==
    {departure_airport, arrival_airport} \cap DOMAIN airports

\* a check that accepts a single fetched airport row
AirportDataMissing_NoRow(airport_costs) == Cardinality(airport_costs) < 1

\* len(airport_costs) < 2
AirportDataMissing(airport_costs) == Cardinality(airport_costs) < 2

\* landing fee plus two hours of gate time, summed over the fetched rows
RECURSIVE SumAirportFees(_)
SumAirportFees(rows) ==
    IF rows = {} THEN 0
    ELSE LET a == CHOOSE x \in rows : TRUE
         IN  airports[a].landing_fee_base + airports[a].gate_cost_per_hour * 2
             + SumAirportFees(rows \ {a})

\* (distance_nm / cruise_speed) + 0.5; only evaluated when cruise_speed # 0
\* a flight time from which the ground time is subtracted
FlightTimeHours_LessGroundOps(distance_nm, cruise_speed) ==
    RSub(R(distance_nm, cruise_speed), R(1, 2))

FlightTimeHours(distance_nm, cruise_speed) ==
    RAdd(R(distance_nm, cruise_speed), R(1, 2))

calculate_operating_costs(route_id, aircraft_spec, frequency_weekly) ==
    IF ~HasRoute(route_id)
    THEN \* route_data is None and route_data[1] is evaluated before the check
         [kind |-> "raise", exc |-> "TypeError"]
    ELSE
    LET route_data == routes[route_id]
        airport_costs == AirportCostRows(route_data.departure_airport,
                                         route_data.arrival_airport)
        cruise_speed == SpecGet(aircraft_spec, "cruise_speed", 450)
    IN
    IF AirportDataMissing(airport_costs)
    THEN [kind |-> "error", error |-> "Route or airport data not found"]
    ELSE IF cruise_speed = 0
    THEN [kind |-> "raise", exc |-> "ZeroDivisionError"]
    ELSE
    LET flight_time_hours == FlightTimeHours(route_data.distance_nm, cruise_speed)
        fuel_burn_per_hour == SpecGet(aircraft_spec, "fuel_burn_per_hour", 800)
        fuel_price_per_gallon == R(350, 100)
        fuel_cost_per_flight ==
            RMul(RMul(flight_time_hours, I(fuel_burn_per_hour)), fuel_price_per_gallon)
        crew_required == SpecGet(aircraft_spec, "crew_required", 2)
        crew_cost_per_hour == 250
        crew_cost_per_flight ==
            RMul(RMul(flight_time_hours, I(crew_cost_per_hour)), I(crew_required))
        airport_fees_per_flight == I(SumAirportFees(airport_costs))
        \* base_price * 1000000 * 0.02 / 3000
        maintenance_cost_per_hour ==
            RMul(I(SpecGet(aircraft_spec, "base_price", 100)), R(20, 3))
        maintenance_cost_per_flight == RMul(flight_time_hours, maintenance_cost_per_hour)
        flights_per_month == FlightsPerMonth(frequency_weekly)
        total_per_flight ==
            RAdd(RAdd(RAdd(fuel_cost_per_flight, crew_cost_per_flight),
                      airport_fees_per_flight), maintenance_cost_per_flight)
    IN  [kind |-> "ok",
         per_flight |-> [fuel |-> fuel_cost_per_flight,
                         crew |-> crew_cost_per_flight,
                         airport_fees |-> airport_fees_per_flight,
                         maintenance |-> maintenance_cost_per_flight,
                         total |-> total_per_flight],
         monthly |-> [fuel |-> RMul(fuel_cost_per_flight, flights_per_month),
                      crew |-> RMul(crew_cost_per_flight, flights_per_month),
                      airport_fees |-> RMul(airport_fees_per_flight, flights_per_month),
                      maintenance |-> RMul(maintenance_cost_per_flight, flights_per_month),
                      total |-> RMul(total_per_flight, flights_per_month)],
         flight_time_hours |-> flight_time_hours]

\* SELECT distance_nm FROM routes WHERE id = ?; 0 when there is no row
get_route_distance(route_id) ==
    IF HasRoute(route_id) THEN routes[route_id].distance_nm ELSE 0

\* capacity * flights_per_month * distance: the divisor of both efficiency ratios
AvailableSeatMiles(aircraft_spec, flights_per_month, route_id) ==
    RMul(RMul(I(SpecGet(aircraft_spec, "passenger_capacity", 180)), flights_per_month),
         I(get_route_distance(route_id)))

\* a clamp whose upper end is 0.5
ClampToUnit_HalfCapped(x) == RMin(R(1, 2), RMax(I(0), x))

\* min(1.0, max(0.0, breakeven_load_factor))
ClampToUnit(x) == RMin(I(1), RMax(I(0), x))

ProfitabilityReport(route_id, aircraft_spec, revenue_data, cost_data) ==
    LET monthly_revenue == revenue_data.monthly_revenue
        monthly_costs == cost_data.monthly.total
        monthly_profit == RSub(monthly_revenue, monthly_costs)
        monthly_passengers == revenue_data.monthly_passengers
        capacity == I(SpecGet(aircraft_spec, "passenger_capacity", 180))
        profit_margin ==
            IF RLt(I(0), monthly_revenue)
            THEN RDiv(RMul(monthly_profit, I(100)), monthly_revenue) ELSE I(0)
        cost_per_passenger ==
            IF RLt(I(0), monthly_passengers)
            THEN RDiv(monthly_costs, monthly_passengers) ELSE I(0)
        revenue_per_passenger ==
            IF RLt(I(0), monthly_passengers)
            THEN RDiv(monthly_revenue, monthly_passengers) ELSE I(0)
        fixed_costs_monthly == RAdd(cost_data.monthly.crew, cost_data.monthly.airport_fees)
        variable_cost_per_passenger ==
            IF RLt(I(0), monthly_passengers)
            THEN RDiv(RAdd(cost_data.monthly.fuel, cost_data.monthly.maintenance),
                      monthly_passengers)
            ELSE I(0)
        breakeven_denominator ==
            RSub(RMul(RMul(revenue_per_passenger, revenue_data.flights_per_month), capacity),
                 RMul(RMul(variable_cost_per_passenger, revenue_data.flights_per_month),
                      capacity))
        breakeven_load_factor ==
            IF RLt(variable_cost_per_passenger, revenue_per_passenger)
            THEN RDiv(fixed_costs_monthly, breakeven_denominator) ELSE I(1)
        base_price == SpecGet(aircraft_spec, "base_price", 100)
        asm == AvailableSeatMiles(aircraft_spec, revenue_data.flights_per_month, route_id)
    IN
    IF RLt(variable_cost_per_passenger, revenue_per_passenger) /\ IsZero(breakeven_denominator)
    THEN [kind |-> "raise", exc |-> "ZeroDivisionError"]
    ELSE IF IsZero(asm)
    THEN [kind |-> "raise", exc |-> "ZeroDivisionError"]
    ELSE
        [kind |-> "ok",
         revenue |-> [monthly_revenue |-> monthly_revenue,
                      revenue_per_passenger |-> revenue_per_passenger,
                      load_factor |-> revenue_data.expected_load_factor,
                      monthly_passengers |-> monthly_passengers,
                      flights_per_month |-> revenue_data.flights_per_month],
         costs |-> [monthly_total |-> monthly_costs,
                    cost_per_passenger |-> cost_per_passenger,
                    breakdown |-> cost_data.monthly],
         profitability |->
            [monthly_profit |-> monthly_profit,
             profit_margin |-> profit_margin,
             breakeven_load_factor |-> ClampToUnit(breakeven_load_factor),
             roi_monthly |->
                IF SpecGet(aircraft_spec, "base_price", 0) > 0
                THEN RDiv(RMul(monthly_profit, I(100)), RMul(I(base_price), R(1000000, 12)))
                ELSE I(0)],
         efficiency |->
            [cost_per_available_seat_mile |-> RDiv(monthly_costs, asm),
             revenue_per_available_seat_mile |-> RDiv(monthly_revenue, asm)]]

calculate_route_profitability(route_id, aircraft_spec, frequency_weekly, fare_economy, fare_business, business_ratio) ==
    LET revenue_data ==
            calculate_route_revenue(route_id,
                                    SpecGet(aircraft_spec, "passenger_capacity", 180),
                                    frequency_weekly, fare_economy, fare_business,
                                    business_ratio)
        cost_data == calculate_operating_costs(route_id, aircraft_spec, frequency_weekly)
    IN  IF revenue_data.kind = "error" THEN revenue_data
        ELSE IF cost_data.kind # "ok" THEN cost_data
        ELSE ProfitabilityReport(route_id, aircraft_spec, revenue_data, cost_data)

(***************************************************************************)
(* calculate_distance: the haversine formula. The math functions are       *)
(* evaluated in fixed point: angles in units of 1/Scale radian, sines and  *)
(* cosines in units of 1/Scale, the haversine term a in units of           *)
(* 1/Scale^2. Divisions truncate toward zero, so that sin is odd and cos   *)
(* is even, as in the math library.                                        *)
(***************************************************************************)
Scale == 10000

\* x / d, truncated toward zero
FDiv(x, d) == IF x >= 0 THEN x \div d ELSE -((-x) \div d)

\* the product of two fixed-point numbers
FMul(x, y) == FDiv(x * y, Scale)

\* math.radians: degrees * pi / 180, from units of 0.0001 degree
radians(degrees) == FDiv(degrees * 349, 20000)

\* the Taylor series of sin or cos: term is the k-th term, n the factorial index
RECURSIVE Series(_, _, _, _)
Series(x2, term, n, left) ==
    IF left = 0 \/ term = 0 THEN 0
    ELSE term + Series(x2, -FDiv(FMul(term, x2), (n + 1) * (n + 2)), n + 2, left - 1)

\* math.sin
sin(x) == Series(FMul(x, x), x, 1, 12)

\* math.cos
cos(x) == Series(FMul(x, x), Scale, 0, 12)

\* math.sqrt of a number in units of 1/Scale^2, in units of 1/Scale: the
\* largest r in lo..hi with r * r <= a
RECURSIVE sqrt(_, _, _)
sqrt(a, lo, hi) ==
    IF lo = hi THEN lo
    ELSE LET mid == (lo + hi + 1) \div 2
         IN  IF mid * mid <= a THEN sqrt(a, mid, hi) ELSE sqrt(a, lo, mid - 1)

\* math.asin on [0, 1]: the largest angle t in lo..hi (within [0, pi/2]) with
\* sin(t) <= y
RECURSIVE asin(_, _, _)
asin(y, lo, hi) ==
    IF lo = hi THEN lo
    ELSE LET mid == (lo + hi + 1) \div 2
         IN  IF sin(mid) <= y THEN asin(y, mid, hi) ELSE asin(y, lo, mid - 1)

\* math.cos(lat1) * math.cos(lat2) * math.sin(dlon/2)**2, in units of 1/Scale^2
CosCosSinSquared(cos_lat1, cos_lat2, sin_dlon) ==
    FMul(cos_lat1, cos_lat2) * ((sin_dlon * sin_dlon) \div Scale)
    + FMul(FMul(cos_lat1, cos_lat2), (sin_dlon * sin_dlon) % Scale)

\* a haversine term in which the latitude of the origin stands for both latitudes
Haversine_OriginLatitude(lat1, lon1, lat2, lon2) ==
    sin(FDiv(lat2 - lat1, 2)) * sin(FDiv(lat2 - lat1, 2))
    + CosCosSinSquared(cos(lat1), cos(lat1), sin(FDiv(lon2 - lon1, 2)))

\* a = sin(dlat/2)**2 + cos(lat1) * cos(lat2) * sin(dlon/2)**2
Haversine(lat1, lon1, lat2, lon2) ==
    sin(FDiv(lat2 - lat1, 2)) * sin(FDiv(lat2 - lat1, 2))
    + CosCosSinSquared(cos(lat1), cos(lat2), sin(FDiv(lon2 - lon1, 2)))

\* int(3440.065 * c), with c = 2 * asin(sqrt(a)); asin raises ValueError on an
\* argument above 1
GreatCircle(a) ==
    IF a > Scale * Scale
    THEN [kind |-> "raise", exc |-> "ValueError"]
    ELSE [kind |-> "ok",
          value |-> (2 * asin(sqrt(a, 0, Scale), 0, 15708) * 34401) \div 100000]

\* cursor.fetchone() of SELECT latitude, longitude FROM airports WHERE icao = ?
AirportPosition(icao) ==
    IF icao \in DOMAIN airports
    THEN [found |-> TRUE, latitude |-> airports[icao].latitude,
          longitude |-> airports[icao].longitude]
    ELSE [found |-> FALSE]

\* a check that passes when only one of the two rows is missing
PositionMissing_Both(origin, dest) == ~origin.found /\ ~dest.found

\* if not origin or not dest
PositionMissing(origin, dest) == ~origin.found \/ ~dest.found

\* the lines after the check: origin[0] on a row that is None raises TypeError
DistanceBetween(origin, dest) ==
    IF ~origin.found \/ ~dest.found
    THEN [kind |-> "raise", exc |-> "TypeError"]
    ELSE GreatCircle(Haversine(radians(origin.latitude), radians(origin.longitude),
                               radians(dest.latitude), radians(dest.longitude)))

calculate_distance(origin_icao, dest_icao) ==
    IF PositionMissing(AirportPosition(origin_icao), AirportPosition(dest_icao))
    THEN [kind |-> "ok", value |-> 0]
    ELSE DistanceBetween(AirportPosition(origin_icao), AirportPosition(dest_icao))

(***************************************************************************)
(* optimize_aircraft_assignment: the nested loops over routes, frequencies *)
(* and price factors are a left fold over the grid in iteration order.     *)
(***************************************************************************)
Frequencies == <<7, 14, 21>>

PriceFactors == <<R(85, 100), R(95, 100), R(105, 100)>>

\* the nine (frequency, price factor) configurations tried for one route
RouteGrid(route_id) ==
    [i \in 1..(Len(Frequencies) * Len(PriceFactors)) |->
        [route_id |-> route_id,
         frequency |-> Frequencies[((i - 1) \div Len(PriceFactors)) + 1],
         price_factor |-> PriceFactors[((i - 1) % Len(PriceFactors)) + 1]]]

RECURSIVE Grid(_)
Grid(available_routes) ==
    IF available_routes = <<>> THEN <<>>
    ELSE RouteGrid(Head(available_routes)) \o Grid(Tail(available_routes))

\* route_fares[1] if route_fares[1] else market_fare_economy * 3.5
MarketFareBusiness(route_id) ==
    IF HasExtended(route_id) /\ Truthy(route_extended_data[route_id].market_fare_business)
    THEN route_extended_data[route_id].market_fare_business
    ELSE RMul(routes[route_id].base_ticket_price, R(35, 10))

\* a loop that keeps whatever configuration it tried last
Improves_Always(monthly_profit, best_profit) == TRUE

\* a loop that replaces the best configuration on an equal profit too
Improves_OrEqual(monthly_profit, best_profit) == RLe(best_profit, monthly_profit)

\* if monthly_profit > best_profit
Improves(monthly_profit, best_profit) == RLt(best_profit, monthly_profit)

NoBest == [kind |-> "ok", best_route |-> "", best_profit |-> NegInf, best_config |-> None]

\* if "error" not in profitability: if monthly_profit > best_profit: ...
KeepBetter(best, cfg, fare_economy, fare_business, profitability) ==
    IF profitability.kind = "raise" THEN profitability
    ELSE IF profitability.kind = "error" THEN best
    ELSE IF Improves(profitability.profitability.monthly_profit, best.best_profit)
    THEN [kind |-> "ok",
          best_route |-> cfg.route_id,
          best_profit |-> profitability.profitability.monthly_profit,
          best_config |-> [frequency_weekly |-> cfg.frequency,
                           fare_economy |-> fare_economy,
                           fare_business |-> fare_business,
                           profitability |-> profitability]]
    ELSE best

\* the fares of a configuration and its profitability analysis
TryFares(best, aircraft_spec, cfg, fare_economy, fare_business) ==
    KeepBetter(best, cfg, fare_economy, fare_business,
               calculate_route_profitability(cfg.route_id, aircraft_spec, cfg.frequency,
                                             fare_economy, fare_business, R(15, 100)))

\* one iteration of the innermost loop body
TryConfiguration(best, aircraft_spec, cfg) ==
    IF best.kind = "raise" THEN best
    ELSE IF ~HasRoute(cfg.route_id) THEN best
    ELSE TryFares(best, aircraft_spec, cfg,
                  RMul(routes[cfg.route_id].base_ticket_price, cfg.price_factor),
                  RMul(MarketFareBusiness(cfg.route_id), cfg.price_factor))

RECURSIVE BestConfiguration(_, _, _)
BestConfiguration(best, aircraft_spec, grid) ==
    IF grid = <<>> THEN best
    ELSE BestConfiguration(TryConfiguration(best, aircraft_spec, Head(grid)),
                           aircraft_spec, Tail(grid))

\* list.sort(key=monthly_profit, reverse=True): stable, descending
RECURSIVE InsertByProfit(_, _)
InsertByProfit(sorted, x) ==
    IF sorted = <<>> THEN <<x>>
    ELSE IF RLt(Head(sorted).monthly_profit, x.monthly_profit)
         THEN <<x>> \o sorted
         ELSE <<Head(sorted)>> \o InsertByProfit(Tail(sorted), x)

\* a return without the sort
SortByProfit_Unsorted(results) == results

RECURSIVE SortByProfit(_)
SortByProfit(results) ==
    IF results = <<>> THEN <<>>
    ELSE InsertByProfit(SortByProfit(SubSeq(results, 1, Len(results) - 1)),
                        results[Len(results)])

\* an append that does not test best_route and best_config
AppendRecommendation_Always(before, aircraft, best) ==
    IF before.kind = "raise" THEN before
    ELSE IF best.kind = "raise" THEN best
    ELSE [kind |-> "ok",
          list |-> Append(before.list,
                          [aircraft_id |-> aircraft.id,
                           recommended_route |-> best.best_route,
                           configuration |-> best.best_config,
                           monthly_profit |-> best.best_profit])]

\* if best_route and best_config: optimization_results.append({...})
AppendRecommendation(before, aircraft, best) ==
    IF before.kind = "raise" THEN before
    ELSE IF best.kind = "raise" THEN best
    ELSE IF best.best_route # "" /\ best.best_config # None
    THEN [kind |-> "ok",
          list |-> Append(before.list,
                          [aircraft_id |-> aircraft.id,
                           recommended_route |-> best.best_route,
                           configuration |-> best.best_config,
                           monthly_profit |-> best.best_profit])]
    ELSE before

\* the outer loop: optimization_results after the last aircraft is handled
RECURSIVE OptimizationResults(_, _)
OptimizationResults(available_aircraft, available_routes) ==
    IF available_aircraft = <<>> THEN [kind |-> "ok", list |-> <<>>]
    ELSE AppendRecommendation(
             OptimizationResults(SubSeq(available_aircraft, 1, Len(available_aircraft) - 1),
                                 available_routes),
             available_aircraft[Len(available_aircraft)],
             BestConfiguration(NoBest, available_aircraft[Len(available_aircraft)].spec,
                               Grid(available_routes)))

\* optimization_results.sort(...); return optimization_results
SortedResults(r) ==
    IF r.kind = "raise" THEN r
    ELSE [kind |-> "ok", list |-> SortByProfit(r.list)]

optimize_aircraft_assignment(available_aircraft, available_routes) ==
    SortedResults(OptimizationResults(available_aircraft, available_routes))

(***************************************************************************)
(* The catalogue the engine is opened on, and the inputs of the calls.     *)
(***************************************************************************)
MaxAircraft == 2

MaxRoutes == 2

MaxCompetition == 10

DemandLevel == {"very_low", "low", "medium", "high", "very_high"}

\* rows written by load_airport_data: the airports the routes below use and
\* airports of both hemispheres of longitude; latitude and longitude are in
\* units of 0.0001 degree
major_airports ==
    [KJFK |-> [latitude |-> 406398, longitude |-> -737789,
               landing_fee_base |-> 850, gate_cost_per_hour |-> 45],
     KLAX |-> [latitude |-> 339425, longitude |-> -1184081,
               landing_fee_base |-> 780, gate_cost_per_hour |-> 42],
     EGLL |-> [latitude |-> 514700, longitude |-> -4543,
               landing_fee_base |-> 950, gate_cost_per_hour |-> 55],
     LFPG |-> [latitude |-> 490097, longitude |-> 25479,
               landing_fee_base |-> 820, gate_cost_per_hour |-> 48],
     RJTT |-> [latitude |-> 357653, longitude |-> 1403864,
               landing_fee_base |-> 1200, gate_cost_per_hour |-> 60],
     WSSS |-> [latitude |-> 13644, longitude |-> 1039915,
               landing_fee_base |-> 650, gate_cost_per_hour |-> 38],
     KBOS |-> [latitude |-> 423656, longitude |-> -710096,
               landing_fee_base |-> 480, gate_cost_per_hour |-> 28],
     KMCO |-> [latitude |-> 284312, longitude |-> -813081,
               landing_fee_base |-> 380, gate_cost_per_hour |-> 22]]

\* "KJFK_EHAM_3" ends at an airport load_airport_data does not store
RouteIds == {"KJFK_KMCO_9", "KMCO_KJFK_1", "KJFK_EHAM_3"}

RouteRow(dep, arr, dist, comp, fare) ==
    [departure_airport |-> dep, arrival_airport |-> arr, distance_nm |-> dist,
     competition_level |-> comp, base_ticket_price |-> I(fare)]

ExtendedRow(demand, fare) == [base_demand |-> demand, market_fare_business |-> I(fare)]

\* a catalogue: the routes table and the route_extended_data table
Catalogue(rs, ext) == [routes |-> rs, route_extended_data |-> ext]

NoRows == Catalogue(<<>>, <<>>)

Merge(a, b) ==
    Catalogue(a.routes @@ b.routes, a.route_extended_data @@ b.route_extended_data)

\* one stored route, saved by save_routes (with its extended row) or by the
\* populate script (routes row only)
Stored(route_id, row, extended) ==
    Catalogue(route_id :> row,
              IF extended = None THEN <<>> ELSE route_id :> extended)

\* the KJFK -> KMCO route of test_economics.py
ScenarioRoutes(profiles) ==
    {Stored("KJFK_KMCO_9", RouteRow("KJFK", "KMCO", 940, p[2], 250), ExtendedRow(p[1], 875)) :
        p \in profiles}
    \cup {Stored("KJFK_KMCO_9", RouteRow("KJFK", "KMCO", 940, 3, 250), None)}

\* the return route: the same row as the (very_high, 5) scenario route, or a row
\* whose stored distance is 0
ReturnRoutes ==
    {Stored("KMCO_KJFK_1", RouteRow("KMCO", "KJFK", d, 5, 250), ExtendedRow("very_high", 875)) :
        d \in {0, 940}}

MissingAirportRoutes ==
    {Stored("KJFK_EHAM_3", RouteRow("KJFK", "EHAM", 3160, 2, 300), None)}

Catalogues(profiles) ==
    {Merge(Merge(a, b), c) :
        <<a, b, c>> \in (ScenarioRoutes(profiles) \cup {NoRows})
                        \X (ReturnRoutes \cup {NoRows})
                        \X (MissingAirportRoutes \cup {NoRows})}

\* (demand tier, competition level) of the scenario route in the optimizer runs
OptimizerProfiles == {<<"very_high", 5>>, <<"high", 8>>, <<"very_low", 10>>}

\* aircraft ids used by callers; "N404" is not in the fleet table
AircraftIds == {"N101", "N202", "N404"}

\* the fleet table: N101 carries a spec_data JSON document, N202 has none
OwnedFleet ==
    ("N101" :> [has_spec_data |-> TRUE, route_assignments |-> <<>>])
    @@ ("N202" :> [has_spec_data |-> FALSE, route_assignments |-> <<>>])

\* the route_assignments table without rows
NoAssignments == <<>>

\* f"{route_id}_{aircraft_id}_{datetime.now().strftime('%Y%m%d')}"
AssignmentId(route_id, aircraft_id, day) == <<route_id, aircraft_id, day>>

\* the tuple of values written by INSERT INTO route_assignments
AssignmentRow(route_id, aircraft_id, frequency_weekly, departure_times, fare_economy, fare_business, day) ==
    [route_id |-> route_id, aircraft_id |-> aircraft_id,
     frequency_weekly |-> frequency_weekly, departure_times |-> departure_times,
     fare_economy |-> fare_economy,
     fare_business |-> IF Truthy(fare_business) THEN fare_business ELSE I(0),
     load_factor_target |-> R(80, 100), start_date |-> day, active |-> 1]

\* a database in which N101 already flies the scenario route, when it is stored
SavedAssignments(rs) ==
    IF "KJFK_KMCO_9" \in DOMAIN rs
    THEN AssignmentId("KJFK_KMCO_9", "N101", 1) :>
            AssignmentRow("KJFK_KMCO_9", "N101", 7, [i \in 1..7 |-> "08:00"],
                          I(250), I(875), 1)
    ELSE NoAssignments

\* the pilots table as setUp creates it: no rows
NoPilots == <<>>

\* no call is in progress and no returned value is held by the caller
NoCall == [op |-> "none"]

Init ==
    /\ airports = major_airports
    /\ \E c \in Catalogues(OptimizerProfiles) :
        /\ routes = c.routes
        /\ route_extended_data = c.route_extended_data
        /\ route_assignments = SavedAssignments(c.routes)
    /\ fleet = OwnedFleet
    /\ today = 1
    /\ pilots = NoPilots
    /\ connection = "open"
    /\ logbook = {}
    /\ achievements = <<>>
    /\ threads = [t \in {1, 2} |-> [pc |-> "idle"]]
    /\ result = NoCall

\* every demand tier with every competition level
InitDemand ==
    /\ airports = major_airports
    /\ \E c \in Catalogues(DemandLevel \X (0..MaxCompetition)) :
        /\ routes = c.routes
        /\ route_extended_data = c.route_extended_data
        /\ route_assignments = SavedAssignments(c.routes)
    /\ fleet = OwnedFleet
    /\ today = 1
    /\ pilots = NoPilots
    /\ connection = "open"
    /\ logbook = {}
    /\ achievements = <<>>
    /\ threads = [t \in {1, 2} |-> [pc |-> "idle"]]
    /\ result = NoCall

\* a calculation that commits a DELETE of the table's rows
ReadOnly_Emptied(table) == <<>>

\* a table as a calculation leaves it: the connection runs SELECT statements
\* only and is closed without a commit
ReadOnly(table) == table

\* a calculation that records itself in the aircraft's spec_data
Calculated_Tracked ==
    /\ fleet' = [a \in DOMAIN fleet |->
                    [fleet[a] EXCEPT !.route_assignments = Append(@, "KJFK_KMCO_9")]]
    /\ UNCHANGED <<airports, routes, route_extended_data, route_assignments, today, pilots,
                   connection, logbook, achievements, threads>>

\* the persisted tables after one of the four calculations
Calculated ==
    /\ airports' = ReadOnly(airports)
    /\ routes' = ReadOnly(routes)
    /\ route_extended_data' = ReadOnly(route_extended_data)
    /\ route_assignments' = ReadOnly(route_assignments)
    /\ fleet' = ReadOnly(fleet)
    /\ UNCHANGED <<today, pilots, connection, logbook, achievements, threads>>

\* the caller has read the returned value; the next call can be made
Consume ==
    /\ result # NoCall
    /\ result' = NoCall
    /\ UNCHANGED <<airports, routes, route_extended_data, route_assignments, fleet, today,
                   pilots, connection, logbook, achievements, threads>>

\* aircraft specs handed in by callers; the last one has no base_price key
TurbopropSpec ==
    [passenger_capacity |-> 20, cruise_speed |-> 235, fuel_burn_per_hour |-> 100,
     crew_required |-> 1, base_price |-> 3]

RegionalJetSpec ==
    [passenger_capacity |-> 100, cruise_speed |-> 470, fuel_burn_per_hour |-> 400,
     crew_required |-> 2, base_price |-> 30]

NoSeatsSpec ==
    [passenger_capacity |-> 0, cruise_speed |-> 470, fuel_burn_per_hour |-> 800,
     crew_required |-> 2]

AircraftSpecs == {TurbopropSpec, NoSeatsSpec}

Fleet ==
    {[id |-> "N101", spec |-> TurbopropSpec], [id |-> "N202", spec |-> RegionalJetSpec],
     [id |-> "N303", spec |-> NoSeatsSpec]}

WeeklyFrequencies == {-7, 0, 7}

EconomyFares == {I(-250), I(0), I(125), I(250), I(500)}

BusinessFares == {None, I(875)}

BusinessRatio == R(15, 100)

\* the call of test_economics.py, and the same call with a free economy fare
ScenarioCalls ==
    {[route_id |-> "KJFK_KMCO_9", aircraft_capacity |-> 180, frequency_weekly |-> 7,
      fare_economy |-> I(f), fare_business |-> b] :
        <<f, b>> \in {0, 250} \X BusinessFares}

RevenueCalls ==
    ScenarioCalls \cup
    [route_id : RouteIds, aircraft_capacity : {0, 20}, frequency_weekly : WeeklyFrequencies,
     fare_economy : EconomyFares, fare_business : BusinessFares]

CalculateRouteRevenue ==
    /\ result = NoCall
    /\ \E call \in RevenueCalls :
        /\ result' = [op |-> "calculate_route_revenue",
                      call |-> call,
                      ret |-> calculate_route_revenue(call.route_id,
                                  call.aircraft_capacity, call.frequency_weekly,
                                  call.fare_economy, call.fare_business, BusinessRatio)]
        /\ Calculated

CostCalls ==
    [route_id : RouteIds, aircraft_spec : AircraftSpecs, frequency_weekly : WeeklyFrequencies]

CalculateOperatingCosts ==
    /\ result = NoCall
    /\ \E call \in CostCalls :
        /\ result' = [op |-> "calculate_operating_costs",
                      call |-> call,
                      ret |-> calculate_operating_costs(call.route_id, call.aircraft_spec,
                                                        call.frequency_weekly)]
        /\ Calculated

\* the last call has the fare at which the turboprop's revenue equals its cost on
\* a 940 nm route with a load factor of 0.30; it is made for a route of the
\* default demand tier, where the exact arithmetic stays within 32 bits
ProfitabilityCalls ==
    [route_id : RouteIds, aircraft_spec : AircraftSpecs,
     frequency_weekly : WeeklyFrequencies,
     fare_economy : EconomyFares, fare_business : BusinessFares]
    \cup {[route_id |-> "KJFK_KMCO_9", aircraft_spec |-> TurbopropSpec, frequency_weekly |-> 7,
            fare_economy |-> R(2077, 3), fare_business |-> None] :
                x \in {r \in {"KJFK_KMCO_9"} : ~HasExtended(r)}}

CalculateRouteProfitability ==
    /\ result = NoCall
    /\ \E call \in ProfitabilityCalls :
        /\ result' = [op |-> "calculate_route_profitability",
                      call |-> call,
                      ret |-> calculate_route_profitability(call.route_id,
                                  call.aircraft_spec, call.frequency_weekly,
                                  call.fare_economy, call.fare_business, BusinessRatio)]
        /\ Calculated

\* the lists of length at most n without repetition over the set S
RECURSIVE ListsOver(_, _)
ListsOver(S, n) ==
    IF n = 0 THEN {<<>>}
    ELSE LET shorter == ListsOver(S, n - 1)
         IN  shorter \cup {Append(l, x) : <<l, x>> \in
                              {t \in shorter \X S : \A i \in 1..Len(t[1]) : t[1][i] # t[2]}}

OptimizeAircraftAssignment ==
    /\ result = NoCall
    /\ \E available_aircraft \in ListsOver(Fleet, MaxAircraft),
       available_routes \in ListsOver(RouteIds, MaxRoutes) :
        /\ result' = [op |-> "optimize_aircraft_assignment",
                      call |-> [available_aircraft |-> available_aircraft,
                                available_routes |-> available_routes],
                      ret |-> optimize_aircraft_assignment(available_aircraft,
                                                           available_routes)]
        /\ Calculated

\* airport codes handed to calculate_distance; "EHAM" is not stored
AirportCodes == DOMAIN major_airports \cup {"EHAM"}

CalculateDistance ==
    /\ result = NoCall
    /\ \E origin_icao \in AirportCodes, dest_icao \in AirportCodes :
        /\ result' = [op |-> "calculate_distance",
                      call |-> [origin_icao |-> origin_icao, dest_icao |-> dest_icao],
                      ret |-> calculate_distance(origin_icao, dest_icao)]
        /\ Calculated

Next ==
    \/ CalculateRouteRevenue
    \/ CalculateOperatingCosts
    \/ CalculateRouteProfitability
    \/ OptimizeAircraftAssignment
    \/ CalculateDistance
    \/ Consume

Spec == Init /\ [][Next]_vars

NextDemand ==
    \/ CalculateRouteRevenue
    \/ CalculateOperatingCosts
    \/ CalculateRouteProfitability
    \/ Consume

SpecDemand == InitDemand /\ [][NextDemand]_vars

(***************************************************************************)
(* Route assignments: assign_aircraft_to_route and the endpoints           *)
(* /api/assign_route, /api/remove_assignment and /api/cleanup_assignments. *)
(***************************************************************************)
MaxDay == 2

\* SELECT id FROM route_assignments WHERE aircraft_id = ? AND active = 1
ActiveAssignments(aircraft_id) ==
    {id \in DOMAIN route_assignments :
        /\ route_assignments[id].aircraft_id = aircraft_id
        /\ route_assignments[id].active = 1}

\* a check that finds no row
AlreadyAssigned_Never(aircraft_id) == FALSE

\* if cursor.fetchone(): the aircraft has an active assignment
AlreadyAssigned(aircraft_id) == ActiveAssignments(aircraft_id) # {}

\* the value a call returns, with the tables it leaves committed
Returned(ret, assignments, owned) ==
    [ret |-> ret, route_assignments |-> assignments, fleet |-> owned]

\* a refusal that commits the deactivation of every stored assignment
Refused_Deactivating(message) ==
    Returned([kind |-> "ok", success |-> FALSE, message |-> message],
             [id \in DOMAIN route_assignments |-> [route_assignments[id] EXCEPT !.active = 0]],
             fleet)

\* conn.close(); return False, message: nothing was written
Refused(message) ==
    Returned([kind |-> "ok", success |-> FALSE, message |-> message],
             route_assignments, fleet)

\* spec_data['route_assignments'].append(route_id), when the row has spec_data
TrackedFleet(route_id, aircraft_id) ==
    IF fleet[aircraft_id].has_spec_data
    THEN [fleet EXCEPT ![aircraft_id].route_assignments = Append(@, route_id)]
    ELSE fleet

assign_aircraft_to_route(route_id, aircraft_id, frequency_weekly, departure_times, fare_economy, fare_business) ==
    IF route_id \notin DOMAIN routes THEN Refused("Route not found")
    ELSE IF aircraft_id \notin DOMAIN fleet THEN Refused("Aircraft not found")
    ELSE IF AlreadyAssigned(aircraft_id)
    THEN Refused("Aircraft is already assigned to another route")
    ELSE IF AssignmentId(route_id, aircraft_id, today) \in DOMAIN route_assignments
    THEN \* the INSERT violates the primary key; nothing is committed
         Returned([kind |-> "raise", exc |-> "IntegrityError"], route_assignments, fleet)
    ELSE Returned([kind |-> "ok", success |-> TRUE, message |-> "successfully assigned"],
                  (AssignmentId(route_id, aircraft_id, today) :>
                      AssignmentRow(route_id, aircraft_id, frequency_weekly, departure_times,
                                    fare_economy, fare_business, today))
                  @@ route_assignments,
                  TrackedFleet(route_id, aircraft_id))

\* check_query: an active assignment of the aircraft, joined with its route
ExistingAssignment(aircraft_id) ==
    \E id \in ActiveAssignments(aircraft_id) :
        route_assignments[id].route_id \in DOMAIN routes

\* duplicate_query
DuplicateAssignment(aircraft_id, route_id) ==
    \E id \in ActiveAssignments(aircraft_id) : route_assignments[id].route_id = route_id

\* max_frequency = min(frequency, 7)
MaxFrequency(frequency) == IF frequency < 7 THEN frequency ELSE 7

\* ["08:00"] * max_frequency
DepartureTimes(max_frequency) == [i \in 1..max_frequency |-> "08:00"]

\* the JSON answer of assign_aircraft_to_route's outcome
AssignResponse(r) ==
    IF r.ret.kind = "raise"
    THEN Refused("Assignment failed")
    ELSE IF r.ret.success
    THEN Returned([kind |-> "ok", success |-> TRUE,
                   message |-> "Route assigned successfully"],
                  r.route_assignments, r.fleet)
    ELSE r

api_assign_route(route_id, aircraft_id, frequency, economy_fare, business_fare) ==
    IF ExistingAssignment(aircraft_id)
    THEN Refused("Aircraft is already assigned; remove existing assignment first")
    ELSE IF DuplicateAssignment(aircraft_id, route_id)
    THEN Refused("This exact route assignment already exists.")
    ELSE AssignResponse(
             assign_aircraft_to_route(route_id, aircraft_id, MaxFrequency(frequency),
                                      DepartureTimes(MaxFrequency(frequency)),
                                      economy_fare, business_fare))

\* UPDATE route_assignments SET active = 0 WHERE aircraft_id = ? AND route_id = ? AND active = 1
api_remove_assignment(aircraft_id, route_id) ==
    IF aircraft_id = "" \/ route_id = ""
    THEN Refused("Aircraft ID and Route ID are required")
    ELSE IF DuplicateAssignment(aircraft_id, route_id)
    THEN Returned([kind |-> "ok", success |-> TRUE,
                   message |-> "Route assignment removed successfully"],
                  [id \in DOMAIN route_assignments |->
                      IF id \in ActiveAssignments(aircraft_id)
                         /\ route_assignments[id].route_id = route_id
                      THEN [route_assignments[id] EXCEPT !.active = 0]
                      ELSE route_assignments[id]],
                  fleet)
    ELSE Refused("No active assignment found to remove")

\* SELECT MAX(id) FROM route_assignments GROUP BY aircraft_id, route_id, active
LatestOfGroup ==
    {id \in DOMAIN route_assignments :
        \A other \in DOMAIN route_assignments :
            (/\ route_assignments[other].aircraft_id = route_assignments[id].aircraft_id
             /\ route_assignments[other].route_id = route_assignments[id].route_id
             /\ route_assignments[other].active = route_assignments[id].active)
            => other[3] <= id[3]}

\* UPDATE ... SET active = 0 WHERE aircraft_id NOT IN (SELECT id FROM fleet) AND active = 1
DeactivateInvalid(assignments) ==
    [id \in DOMAIN assignments |->
        IF assignments[id].aircraft_id \notin DOMAIN fleet /\ assignments[id].active = 1
        THEN [assignments[id] EXCEPT !.active = 0]
        ELSE assignments[id]]

api_cleanup_assignments ==
    Returned([kind |-> "ok", success |-> TRUE,
              duplicates_removed |-> Cardinality(DOMAIN route_assignments \ LatestOfGroup),
              invalid_deactivated |->
                  Cardinality({id \in LatestOfGroup :
                      /\ route_assignments[id].aircraft_id \notin DOMAIN fleet
                      /\ route_assignments[id].active = 1})],
             DeactivateInvalid([id \in LatestOfGroup |-> route_assignments[id]]),
             fleet)

\* the caller holds the returned value; the tables are as the call committed them
Commit(op, call, r) ==
    /\ result' = [op |-> op, call |-> call, ret |-> r.ret]
    /\ route_assignments' = r.route_assignments
    /\ fleet' = r.fleet
    /\ UNCHANGED <<airports, routes, route_extended_data, today, pilots, connection, logbook,
                   achievements, threads>>

AssignCalls ==
    [route_id : RouteIds, aircraft_id : AircraftIds, frequency_weekly : {7},
     fare_economy : {I(250)}, fare_business : {I(875)}]

AssignAircraftToRoute ==
    /\ result = NoCall
    /\ \E call \in AssignCalls :
        Commit("assign_aircraft_to_route", call,
               assign_aircraft_to_route(call.route_id, call.aircraft_id,
                                        call.frequency_weekly,
                                        DepartureTimes(call.frequency_weekly),
                                        call.fare_economy, call.fare_business))

\* request bodies of /api/assign_route; economy_fare and business_fare default
ApiAssignCalls == [route_id : RouteIds, aircraft_id : AircraftIds, frequency : {7, 14}]

ApiAssignRoute ==
    /\ result = NoCall
    /\ \E call \in ApiAssignCalls :
        Commit("api_assign_route", call,
               api_assign_route(call.route_id, call.aircraft_id, call.frequency,
                                I(250), I(875)))

ApiRemoveCalls == [aircraft_id : AircraftIds \cup {""}, route_id : RouteIds]

ApiRemoveAssignment ==
    /\ result = NoCall
    /\ \E call \in ApiRemoveCalls :
        Commit("api_remove_assignment", call,
               api_remove_assignment(call.aircraft_id, call.route_id))

ApiCleanupAssignments ==
    /\ result = NoCall
    /\ Commit("api_cleanup_assignments", <<>>, api_cleanup_assignments)

\* datetime.now() reaches the next calendar day
NextDay ==
    /\ today < MaxDay
    /\ today' = today + 1
    /\ UNCHANGED <<airports, routes, route_extended_data, route_assignments, fleet, pilots,
                   connection, logbook, achievements, threads, result>>

\* the scenario route and the route to EHAM are stored; "KMCO_KJFK_1" is not
InitAssign ==
    /\ airports = major_airports
    /\ \E a \in ScenarioRoutes({<<"very_high", 5>>}), b \in MissingAirportRoutes :
        /\ a.route_extended_data # <<>>
        /\ routes = Merge(a, b).routes
        /\ route_extended_data = Merge(a, b).route_extended_data
    /\ route_assignments = NoAssignments
    /\ fleet = OwnedFleet
    /\ today = 1
    /\ pilots = NoPilots
    /\ connection = "open"
    /\ logbook = {}
    /\ achievements = <<>>
    /\ threads = [t \in {1, 2} |-> [pc |-> "idle"]]
    /\ result = NoCall

NextAssign ==
    \/ AssignAircraftToRoute
    \/ ApiAssignRoute
    \/ ApiRemoveAssignment
    \/ ApiCleanupAssignments
    \/ NextDay
    \/ Consume

SpecAssign == InitAssign /\ [][NextAssign]_vars

(***************************************************************************)
(* assign_aircraft_to_route called from two request threads, each on its   *)
(* own connection.  The SELECT statements read the committed tables; the   *)
(* INSERT, the spec_data UPDATE and the commit form one write transaction. *)
(***************************************************************************)
\* lines 592-612: the three SELECT checks of a call a thread starts; a refused
\* call returns at once, the others go on to the INSERT
CheckAssignment(t) ==
    /\ threads[t].pc = "idle"
    /\ \E call \in AssignCalls :
        LET r == assign_aircraft_to_route(call.route_id, call.aircraft_id,
                                          call.frequency_weekly,
                                          DepartureTimes(call.frequency_weekly),
                                          call.fare_economy, call.fare_business)
        IN  threads' = [threads EXCEPT ![t] =
                IF r.ret.kind = "ok" /\ ~r.ret.success
                THEN [pc |-> "done", call |-> call, ret |-> r.ret]
                ELSE [pc |-> "insert", call |-> call]]
    /\ UNCHANGED <<airports, routes, route_extended_data, route_assignments, fleet, today,
                   pilots, connection, logbook, achievements, result>>

\* lines 614-643: INSERT INTO route_assignments, the spec_data update and the
\* commit; a row with the same id makes the INSERT raise
InsertAssignment(t) ==
    /\ threads[t].pc = "insert"
    /\ LET call == threads[t].call
           assignment_id == AssignmentId(call.route_id, call.aircraft_id, today)
       IN  IF assignment_id \in DOMAIN route_assignments
           THEN /\ threads' = [threads EXCEPT ![t] =
                        [pc |-> "done", call |-> call,
                         ret |-> [kind |-> "raise", exc |-> "IntegrityError"]]]
                /\ UNCHANGED <<route_assignments, fleet>>
           ELSE /\ threads' = [threads EXCEPT ![t] =
                        [pc |-> "done", call |-> call,
                         ret |-> [kind |-> "ok", success |-> TRUE,
                                  message |-> "successfully assigned"]]]
                /\ route_assignments' =
                        (assignment_id :>
                            AssignmentRow(call.route_id, call.aircraft_id,
                                          call.frequency_weekly,
                                          DepartureTimes(call.frequency_weekly),
                                          call.fare_economy, call.fare_business, today))
                        @@ route_assignments
                /\ fleet' = TrackedFleet(call.route_id, call.aircraft_id)
    /\ UNCHANGED <<airports, routes, route_extended_data, today, pilots, connection, logbook,
                   achievements, result>>

\* the request is answered and the thread serves the next one
Respond(t) ==
    /\ threads[t].pc = "done"
    /\ threads' = [threads EXCEPT ![t] = [pc |-> "idle"]]
    /\ UNCHANGED <<airports, routes, route_extended_data, route_assignments, fleet, today,
                   pilots, connection, logbook, achievements, result>>

NextThreads ==
    \/ \E t \in DOMAIN threads : CheckAssignment(t)
    \/ \E t \in DOMAIN threads : InsertAssignment(t)
    \/ \E t \in DOMAIN threads : Respond(t)

SpecThreads == InitAssign /\ [][NextThreads]_vars

(***************************************************************************)
(* core/database_utils.py: the pilots table, as tests/test_database_utils  *)
(* drives it.  A pilots row is <<id, name, homeHub, currentLocation>>; the *)
(* tuple's position 0 of the source is index 1 here.                       *)
(***************************************************************************)
MaxPilots == 3

\* the columns of the CREATE TABLE statement of setUp
PilotsColumns == {"id", "name", "homeHub", "currentLocation"}

\* connect_to_database as setUp patches it: every call returns the one
\* in-memory connection, whatever state it is in
connect_to_database == connection

\* the connection after the finally clause of add_pilot: closed only when the
\* caller passed none
AfterAddPilot(passed) == IF passed = "None" THEN "closed" ELSE connection

\* INSERT INTO pilots (name, homeHub, currentLocation): the id is the rowid
Inserted(name, home_hub, current_location) ==
    Append(pilots, <<Len(pilots) + 1, name, home_hub, current_location>>)

\* conn.cursor() on a closed connection raises sqlite3.ProgrammingError, which
\* the except clause prints; otherwise the row is inserted and committed
add_pilot(name, home_hub, current_location, passed) ==
    [ret |-> [kind |-> "ok", value |-> "None"],
     pilots |-> IF connect_to_database = "closed" THEN pilots
                ELSE Inserted(name, home_hub, current_location),
     connection |-> AfterAddPilot(passed)]

\* the parameters of the definition the module's name fetch_pilot_data is bound
\* to after import: the later def replaces the one of line 189
FetchPilotDataParameters == {"airline_id"}

\* the columns the SELECT of the later definition names
SelectedColumns == {"id", "name", "homeHub", "currentLocation", "rank", "total_hours", "airline_id"}

\* the body of fetch_pilot_data(airline_id): a closed connection or a column the
\* table lacks raises a sqlite3.Error, answered with []; the connection is
\* closed in the finally clause
FetchByAirline(airline_id) ==
    [ret |-> [kind |-> "ok",
              value |-> IF connect_to_database = "closed" \/ ~(SelectedColumns \subseteq PilotsColumns)
                        THEN <<>>
                        ELSE SelectSeq(pilots, LAMBDA row : FALSE)],
     pilots |-> pilots,
     connection |-> "closed"]

\* a call fetch_pilot_data(<keyword>=<argument>): a keyword that is no parameter
\* raises TypeError before the body runs
fetch_pilot_data(keyword, argument) ==
    IF keyword \notin FetchPilotDataParameters
    THEN [ret |-> [kind |-> "raise", error |-> "TypeError"],
          pilots |-> pilots, connection |-> connection]
    ELSE FetchByAirline(argument)

\* the tables and the connection after a call of database_utils
Done(op, call, r) ==
    /\ result' = [op |-> op, call |-> call, ret |-> r.ret]
    /\ pilots' = r.pilots
    /\ connection' = r.connection
    /\ UNCHANGED <<airports, routes, route_extended_data, route_assignments, fleet, today,
                   logbook, achievements, threads>>

\* add_pilot with the test connection passed in, or with no connection
AddPilotCalls == [name : {"John Doe", "Jane Roe"}, home_hub : {"KATL", "Unknown"}, current_location : {"KJFK", "Unknown"}, connection : {"test_conn", "None"}]

AddPilot ==
    /\ result = NoCall
    /\ Len(pilots) < MaxPilots
    /\ \E call \in AddPilotCalls :
        Done("add_pilot", call,
             add_pilot(call.name, call.home_hub, call.current_location, call.connection))

\* fetch_pilot_data(connection=self.test_conn) as the tests call it, and
\* fetch_pilot_data(airline_id=1)
FetchPilotDataCalls == [keyword : {"connection", "airline_id"}]

FetchPilotData ==
    /\ result = NoCall
    /\ \E call \in FetchPilotDataCalls :
        Done("fetch_pilot_data", call, fetch_pilot_data(call.keyword, 1))

InitPilots ==
    /\ airports = major_airports
    /\ routes = <<>>
    /\ route_extended_data = <<>>
    /\ route_assignments = NoAssignments
    /\ fleet = OwnedFleet
    /\ today = 1
    /\ pilots = NoPilots
    /\ connection = "open"
    /\ logbook = {}
    /\ achievements = <<>>
    /\ threads = [t \in {1, 2} |-> [pc |-> "idle"]]
    /\ result = NoCall

NextPilots ==
    \/ AddPilot
    \/ FetchPilotData
    \/ Consume

SpecPilots == InitPilots /\ [][NextPilots]_vars

(***************************************************************************)
(* core/database_utils.py: calculate_rank_and_achievements.  The logbook   *)
(* is the set of stored flight numbers (the primary key); a row of the     *)
(* achievements table is <<pilot_id, airlineId, achievement, date_earned>>.*)
(***************************************************************************)
\* logbook rows joined with their fleet row; hours is (actualArr - actualDep) / 3600.0
Flights ==
    [FL123 |-> [arr |-> "KLAX", hours |-> 3, status |-> "COMPLETED",
                airlineCode |-> "VA1", airframeIcao |-> "B738"],
     FL200 |-> [arr |-> "KJFK", hours |-> 8, status |-> "COMPLETED",
                airlineCode |-> "VA1", airframeIcao |-> "B738"],
     FL201 |-> [arr |-> "KLAX", hours |-> 9, status |-> "COMPLETED",
                airlineCode |-> "VA1", airframeIcao |-> "B738"],
     FL300 |-> [arr |-> "KBOS", hours |-> 3, status |-> "COMPLETED",
                airlineCode |-> "VA2", airframeIcao |-> "A320"],
     FL400 |-> [arr |-> "KMCO", hours |-> 12, status |-> "SCHEDULED",
                airlineCode |-> "VA1", airframeIcao |-> "B738"]]

\* WHERE status = 'COMPLETED' AND fleetId IN (SELECT id FROM fleet WHERE airlineCode = ?)
CompletedFlights(airline_id) ==
    {f \in logbook : Flights[f].status = "COMPLETED" /\ Flights[f].airlineCode = airline_id}

\* SUM((actualArr - actualDep) / 3600.0) over the rows; 0 for no row
RECURSIVE TotalHours(_)
TotalHours(rows) ==
    IF rows = {} THEN 0
    ELSE LET f == CHOOSE x \in rows : TRUE
         IN  Flights[f].hours + TotalHours(rows \ {f})

\* the last entry of rank_thresholds that total_hours reaches
Rank(total_hours) ==
    IF total_hours >= 100 THEN "Chief Captain"
    ELSE IF total_hours >= 50 THEN "Captain"
    ELSE IF total_hours >= 10 THEN "First Officer"
    ELSE "Student Pilot"

\* SELECT achievement FROM achievements WHERE pilot_id = ? AND airlineId = ?
ExistingAchievements(pilot_id, airline_id) ==
    {achievements[i][3] : i \in {j \in 1..Len(achievements) :
        achievements[j][1] = pilot_id /\ achievements[j][2] = airline_id}}

\* a check that takes every achievement for new
NotYetAwarded_Whatever(existing_achievements, achievement) == TRUE

\* achievement not in existing_achievements
NotYetAwarded(existing_achievements, achievement) == achievement \notin existing_achievements

\* the achievements the logbook earns, in the order the code tests them
EarnedAchievements(airline_id) ==
    LET unique_destinations ==
            Cardinality({Flights[f].arr : f \in CompletedFlights(airline_id)})
        \* SUM of hours ... GROUP BY airframeIcao
        hours == [aircraft \in {"A320", "B738"} |->
                    TotalHours({f \in CompletedFlights(airline_id) :
                                    Flights[f].airframeIcao = aircraft})]
    IN  SelectSeq(<<<<"First Flight", CompletedFlights(airline_id) # {}>>,
                    <<"First Officer (A320)", hours["A320"] >= 10>>,
                    <<"Captain (A320)", hours["A320"] >= 20>>,
                    <<"First Officer (B738)", hours["B738"] >= 10>>,
                    <<"Captain (B738)", hours["B738"] >= 20>>,
                    <<"20 Unique Destinations", unique_destinations >= 20>>,
                    <<"50 Unique Destinations", unique_destinations >= 50>>>>,
                  LAMBDA e : e[2])

calculate_rank_and_achievements(pilot_id, airline_id) ==
    LET existing_achievements == ExistingAchievements(pilot_id, airline_id)
        achievements_to_add ==
            SelectSeq(EarnedAchievements(airline_id),
                      LAMBDA e : NotYetAwarded(existing_achievements, e[1]))
        \* INSERT INTO achievements (pilot_id, airlineId, achievement, date_earned)
        updated ==
            achievements \o
            [i \in 1..Len(achievements_to_add) |->
                <<pilot_id, airline_id, achievements_to_add[i][1], today>>]
    IN  [rank |-> Rank(TotalHours(CompletedFlights(airline_id))),
         achievements |-> updated,
         updated_achievements |->
            SelectSeq(updated, LAMBDA row : row[1] = pilot_id /\ row[2] = airline_id)]

\* a flight is written to the logbook
LogFlight ==
    /\ result = NoCall
    /\ \E f \in DOMAIN Flights \ logbook : logbook' = logbook \cup {f}
    /\ UNCHANGED <<airports, routes, route_extended_data, route_assignments, fleet, today,
                   pilots, connection, achievements, threads, result>>

CalculateRankAndAchievements ==
    /\ result = NoCall
    /\ \E pilot_id \in {1, 2}, airline_id \in {"VA1", "VA2"} :
        LET r == calculate_rank_and_achievements(pilot_id, airline_id)
        IN  /\ result' = [op |-> "calculate_rank_and_achievements",
                          call |-> [pilot_id |-> pilot_id, airline_id |-> airline_id],
                          ret |-> [kind |-> "ok", rank |-> r.rank,
                                   achievements |-> r.updated_achievements]]
            /\ achievements' = r.achievements
    /\ UNCHANGED <<airports, routes, route_extended_data, route_assignments, fleet, today,
                   pilots, connection, logbook, threads>>

NextRank ==
    \/ LogFlight
    \/ CalculateRankAndAchievements
    \/ Consume

SpecRank == InitPilots /\ [][NextRank]_vars

(***************************************************************************)
(* Route generation: generate_routes builds the routes out of a hub,       *)
(* save_routes persists them; the airports table is seeded by the          *)
(* constructor of RouteEconomics and by the populate script.               *)
(***************************************************************************)
\* the rows create_airports_table inserts for six of the script's airports:
\* landing fee 500 and gate cost 200 at a large hub, 300 and 150 elsewhere
AIRPORTS ==
    [KJFK |-> [latitude |-> 406413, longitude |-> -737781,
               landing_fee_base |-> 500, gate_cost_per_hour |-> 200],
     KLAX |-> [latitude |-> 339425, longitude |-> -1184081,
               landing_fee_base |-> 500, gate_cost_per_hour |-> 200],
     EGLL |-> [latitude |-> 514700, longitude |-> -4543,
               landing_fee_base |-> 500, gate_cost_per_hour |-> 200],
     EHAM |-> [latitude |-> 523086, longitude |-> 47639,
               landing_fee_base |-> 300, gate_cost_per_hour |-> 150],
     KBOS |-> [latitude |-> 423656, longitude |-> -710096,
               landing_fee_base |-> 300, gate_cost_per_hour |-> 150],
     KMCO |-> [latitude |-> 284312, longitude |-> -813081,
               landing_fee_base |-> 300, gate_cost_per_hour |-> 150]]

\* SELECT icao FROM airports WHERE icao != ?: the rows come back in the order of
\* the primary key
Destinations(airline_hub) ==
    SelectSeq(<<"EGLL", "EHAM", "KBOS", "KJFK", "KLAX", "KMCO", "LFPG", "RJTT", "WSSS">>,
              LAMBDA icao : icao \in DOMAIN airports /\ icao # airline_hub)

\* a banding that puts the domestic limit at 500 nm as well
RouteBand_Short(distance) ==
    IF distance < 500 THEN "regional"
    ELSE IF distance < 500 THEN "domestic"
    ELSE "international"

\* the route type of a distance
RouteBand(distance) ==
    IF distance < 500 THEN "regional"
    ELSE IF distance < 1500 THEN "domestic"
    ELSE "international"

\* picks[i] = <<first, low>> stands for the random draws of route i: the first
\* or the last element of the demand choices, the low or the high end of
\* randint.  seasonal_factor and historical_load_factor are uniform floats no
\* later step reads; they are left out of the route.
generate_routes(airline_hub, route_count, picks) ==
    LET destinations == Destinations(airline_hub)
        taken == SubSeq(destinations, 1, IF route_count < Len(destinations)
                                         THEN route_count ELSE Len(destinations))
        distances == [i \in DOMAIN taken |-> calculate_distance(airline_hub, taken[i])]
        route(i) ==
            LET distance == distances[i].value
                route_type == RouteBand(distance)
                base_demand ==
                    CASE route_type = "regional" -> IF picks[i][1] THEN "medium" ELSE "high"
                      [] route_type = "domestic" -> IF picks[i][1] THEN "medium" ELSE "very_high"
                      [] OTHER -> IF picks[i][1] THEN "low" ELSE "high"
                competition ==
                    CASE route_type = "regional" -> IF picks[i][2] THEN 3 ELSE 8
                      [] route_type = "domestic" -> IF picks[i][2] THEN 2 ELSE 6
                      [] OTHER -> IF picks[i][2] THEN 1 ELSE 4
                base_fare ==
                    CASE route_type = "regional" -> RAdd(I(120), RMul(I(distance), R(15, 100)))
                      [] route_type = "domestic" -> RAdd(I(180), RMul(I(distance), R(12, 100)))
                      [] OTHER -> RAdd(I(350), RMul(I(distance), R(8, 100)))
            IN  [id |-> airline_hub \o "_" \o taken[i] \o "_" \o ToString(i),
                 origin_icao |-> airline_hub, destination_icao |-> taken[i],
                 distance_nm |-> distance, route_type |-> route_type,
                 base_demand |-> base_demand, competition_level |-> competition,
                 market_fare_economy |-> base_fare,
                 market_fare_business |-> RMul(base_fare, R(35, 10))]
    IN  IF \E i \in DOMAIN taken : distances[i].kind = "raise"
        THEN [kind |-> "raise", exc |-> "ValueError"]
        ELSE [kind |-> "ok", value |-> [i \in DOMAIN taken |-> route(i)]]

\* INSERT OR REPLACE INTO routes and INTO route_extended_data for each route, in
\* list order; no other row of the two tables is touched
save_routes(rs) ==
    LET ids == {rs[i].id : i \in DOMAIN rs}
        last(id) ==
            rs[CHOOSE i \in DOMAIN rs :
                    rs[i].id = id /\ \A j \in DOMAIN rs : rs[j].id = id => j <= i]
    IN  Catalogue([id \in ids |->
                      [departure_airport |-> last(id).origin_icao,
                       arrival_airport |-> last(id).destination_icao,
                       distance_nm |-> last(id).distance_nm,
                       competition_level |-> last(id).competition_level,
                       base_ticket_price |-> last(id).market_fare_economy]] @@ routes,
                  [id \in ids |->
                      [route_type |-> last(id).route_type,
                       base_demand |-> last(id).base_demand,
                       market_fare_business |-> last(id).market_fare_business]]
                  @@ route_extended_data)

\* hubs and route counts: callers pass a hub of the airline and a count; "LFPG"
\* is a hub the populate script does not store
GenerateRoutesCalls ==
    {[airline_hub |-> "KMCO", route_count |-> 0],
     [airline_hub |-> "KMCO", route_count |-> 1],
     [airline_hub |-> "KMCO", route_count |-> 2],
     [airline_hub |-> "LFPG", route_count |-> 1]}

GenerateRoutes ==
    /\ result = NoCall
    /\ \E call \in GenerateRoutesCalls :
       \E picks \in [1..call.route_count -> BOOLEAN \X BOOLEAN] :
            result' = [op |-> "generate_routes", call |-> call,
                       ret |-> generate_routes(call.airline_hub, call.route_count, picks)]
    /\ UNCHANGED <<airports, routes, route_extended_data, route_assignments, fleet, today,
                   pilots, connection, logbook, achievements, threads>>

\* save_routes(routes) with the list generate_routes has just returned
SaveRoutes ==
    /\ result.op = "generate_routes"
    /\ result.ret.kind = "ok"
    /\ routes' = save_routes(result.ret.value).routes
    /\ route_extended_data' = save_routes(result.ret.value).route_extended_data
    /\ result' = [op |-> "save_routes", call |-> [routes |-> result.ret.value],
                  ret |-> [kind |-> "ok"]]
    /\ UNCHANGED <<airports, route_assignments, fleet, today, pilots, connection, logbook,
                   achievements, threads>>

\* RouteEconomics(db_path): init_database creates the tables that are missing,
\* load_airport_data deletes the rows of airports and inserts its own
NewRouteEconomics ==
    /\ result = NoCall
    /\ airports' = major_airports
    /\ result' = [op |-> "RouteEconomics", call |-> [db_path |-> "userdata.db"],
                  ret |-> [kind |-> "ok"]]
    /\ UNCHANGED <<routes, route_extended_data, route_assignments, fleet, today, pilots,
                   connection, logbook, achievements, threads>>

\* the populate script seeds the airports table: DELETE FROM airports, then one
\* INSERT per entry of AIRPORTS
CreateAirportsTable ==
    /\ result = NoCall
    /\ airports' = AIRPORTS
    /\ result' = [op |-> "create_airports_table", call |-> [conn |-> "userdata.db"],
                  ret |-> [kind |-> "ok"]]
    /\ UNCHANGED <<routes, route_extended_data, route_assignments, fleet, today, pilots,
                   connection, logbook, achievements, threads>>

NextGenerate ==
    \/ GenerateRoutes
    \/ SaveRoutes
    \/ NewRouteEconomics
    \/ CreateAirportsTable
    \/ Consume

SpecGenerate == InitPilots /\ [][NextGenerate]_vars

(***************************************************************************)
(* Properties of the assignment optimizer.                                 *)
(***************************************************************************)
Elems(seq) == {seq[i] : i \in 1..Len(seq)}

IsOptimizerReturn ==
    result.op = "optimize_aircraft_assignment" /\ result.ret.kind = "ok"

Recommendations == result.ret.list

\* the input aircraft a recommendation is for
AircraftOf(rec) ==
    CHOOSE a \in Elems(result.call.available_aircraft) : a.id = rec.aircraft_id

\* the grid stated by the specification: candidate routes x {7, 14, 21} x
\* {0.85, 0.95, 1.05}, as <<route, frequency, price factor>>
StatedGrid ==
    (Elems(result.call.available_routes) \cap DOMAIN routes)
        \X {7, 14, 21} \X {R(85, 100), R(95, 100), R(105, 100)}

StatedFareEconomy(c) == RMul(routes[c[1]].base_ticket_price, c[3])

StatedFareBusiness(c) == RMul(MarketFareBusiness(c[1]), c[3])

StatedReport(spec, c) ==
    calculate_route_profitability(c[1], spec, c[2], StatedFareEconomy(c),
                                  StatedFareBusiness(c), R(15, 100))

\* the profitability call's return value for every configuration of the grid
StatedReports(spec) == [c \in StatedGrid |-> StatedReport(spec, c)]

\* the grid configuration a recommendation carries
IsConfigurationOf(c, rec) ==
    /\ c[1] = rec.recommended_route
    /\ c[2] = rec.configuration.frequency_weekly
    /\ StatedFareEconomy(c) = rec.configuration.fare_economy
    /\ StatedFareBusiness(c) = rec.configuration.fare_business

\* C1: no recommendation returned by optimize_aircraft_assignment carries a
\* monthly_profit that is negative or zero (an aircraft with no profitable
\* configuration is omitted).
C1_NoUnprofitableRecommendation ==
    IsOptimizerReturn =>
        \A i \in 1..Len(Recommendations) : RLt(I(0), Recommendations[i].monthly_profit)

\* C2: every recommendation carries the maximum monthly profit over the grid
\* configurations whose profitability call returns a report, its route, frequency
\* and fares are a configuration attaining that maximum, and there is at most one
\* recommendation per input aircraft.
C2_RecommendationIsGridMaximum ==
    IsOptimizerReturn =>
        /\ Len(Recommendations) <= Len(result.call.available_aircraft)
        /\ \A i, j \in 1..Len(Recommendations) :
                i # j => Recommendations[i].aircraft_id # Recommendations[j].aircraft_id
        /\ \A i \in 1..Len(Recommendations) :
            LET rec == Recommendations[i]
                reports == StatedReports(AircraftOf(rec).spec)
            IN  /\ \E a \in Elems(result.call.available_aircraft) : a.id = rec.aircraft_id
                /\ \A c \in StatedGrid :
                        reports[c].kind = "ok" =>
                            RLe(reports[c].profitability.monthly_profit, rec.monthly_profit)
                /\ \E c \in StatedGrid :
                        /\ IsConfigurationOf(c, rec)
                        /\ reports[c].kind = "ok"
                        /\ reports[c].profitability.monthly_profit = rec.monthly_profit

\* two aircraft are recommended, the better one at a profit, each chosen among
\* several reported configurations
C2_Witness ==
    /\ IsOptimizerReturn
    /\ Len(Recommendations) = 2
    /\ RLt(I(0), Recommendations[1].monthly_profit)
    /\ Len(result.call.available_routes) = 2
    /\ \A c \in StatedGrid :
            StatedReport(AircraftOf(Recommendations[1]).spec, c).kind = "ok"

\* position of a route in the candidate list
RouteIndex(route_id) ==
    CHOOSE i \in 1..Len(result.call.available_routes) :
        result.call.available_routes[i] = route_id

\* iteration order: candidate-list order, then frequency, then price factor
IteratedBefore(c1, c2) ==
    \/ RouteIndex(c1[1]) < RouteIndex(c2[1])
    \/ /\ c1[1] = c2[1]
       /\ \/ c1[2] < c2[2]
          \/ c1[2] = c2[2] /\ RLt(c1[3], c2[3])

\* C3: among configurations of equal monthly profit the first one in iteration
\* order is kept: no configuration iterated before the recommended one has a
\* monthly profit equal to (or above) the recommended one's.
C3_TiesKeepFirstFound ==
    IsOptimizerReturn =>
        \A i \in 1..Len(Recommendations) :
            LET rec == Recommendations[i]
                reports == StatedReports(AircraftOf(rec).spec)
            IN  \A k \in StatedGrid :
                    IsConfigurationOf(k, rec) =>
                        \A c \in StatedGrid :
                            IteratedBefore(c, k) /\ reports[c].kind = "ok" =>
                                RLt(reports[c].profitability.monthly_profit,
                                    rec.monthly_profit)

\* a recommendation whose profit is also reached by a configuration iterated later
C3_Witness ==
    /\ IsOptimizerReturn
    /\ \E i \in 1..Len(Recommendations) :
        LET rec == Recommendations[i]
            reports == StatedReports(AircraftOf(rec).spec)
        IN  \E k \in StatedGrid, c \in StatedGrid :
                /\ IsConfigurationOf(k, rec)
                /\ IteratedBefore(k, c)
                /\ reports[c].kind = "ok"
                /\ reports[c].profitability.monthly_profit = rec.monthly_profit

(***************************************************************************)
(* Properties of the demand and revenue model.                             *)
(***************************************************************************)
IsRevenueReturn == result.op = "calculate_route_revenue" /\ result.ret.kind = "ok"

IsProfitabilityCall == result.op = "calculate_route_profitability"

IsProfitabilityReport == IsProfitabilityCall /\ result.ret.kind = "ok"

WithinLoadFactorBounds(lf) == RLe(R(30, 100), lf) /\ RLe(lf, R(95, 100))

\* C4: calculate_route_revenue returns an expected_load_factor within
\* [0.30, 0.95] for every stored route and every input, and
\* calculate_route_profitability reports that value as revenue.load_factor.
C4_LoadFactorBounds ==
    /\ IsRevenueReturn => WithinLoadFactorBounds(result.ret.expected_load_factor)
    /\ IsProfitabilityReport =>
        /\ WithinLoadFactorBounds(result.ret.revenue.load_factor)
        /\ result.ret.revenue.load_factor =
            calculate_route_revenue(result.call.route_id,
                SpecGet(result.call.aircraft_spec, "passenger_capacity", 180),
                result.call.frequency_weekly, result.call.fare_economy,
                result.call.fare_business, R(15, 100)).expected_load_factor

\* a free fare on a route whose unclamped load factor is below the floor
C4_Witness ==
    /\ IsRevenueReturn
    /\ result.call.fare_economy = I(0)
    /\ BaseDemand(result.call.route_id) = "very_low"
    /\ routes[result.call.route_id].competition_level = MaxCompetition
    /\ result.ret.expected_load_factor = R(30, 100)

\* C5: with route, capacity, frequency and business fare fixed, a charged economy
\* fare f1 with 0 <= f1 <= f2 never yields a lower expected load factor than f2.
C5_LoadFactorMonotoneInFare ==
    IsRevenueReturn =>
        \A f1 \in EconomyFares :
            RLe(I(0), f1) /\ RLe(f1, result.call.fare_economy) =>
                RLe(result.ret.expected_load_factor,
                    calculate_route_revenue(result.call.route_id,
                        result.call.aircraft_capacity, result.call.frequency_weekly,
                        f1, result.call.fare_business, R(15, 100)).expected_load_factor)

\* the Scenario A call repeated with a free economy fare, on the Scenario A route
\* (demand tier high, competition 3, market fare 250)
IsScenarioB(fare_business) ==
    /\ result.op = "calculate_route_revenue"
    /\ result.call = [route_id |-> "KJFK_KMCO_9", aircraft_capacity |-> 180,
                      frequency_weekly |-> 7, fare_economy |-> I(0),
                      fare_business |-> fare_business]
    /\ HasRoute("KJFK_KMCO_9")
    /\ routes["KJFK_KMCO_9"].competition_level = 3
    /\ routes["KJFK_KMCO_9"].base_ticket_price = I(250)
    /\ BaseDemand("KJFK_KMCO_9") = "high"

\* C6 as stated: Scenario B (business fare 875) has load_factor <= 0.95 and a
\* monthly_revenue of exactly 0.
C6_FreeFareYieldsNoRevenue ==
    IsScenarioB(I(875)) =>
        /\ result.ret.kind = "ok"
        /\ RLe(result.ret.expected_load_factor, R(95, 100))
        /\ result.ret.monthly_revenue = I(0)

\* C6 as amended: Scenario B has load_factor <= 0.95 and its monthly_revenue is
\* the business-class revenue alone, 15% of the passengers at 875 on 7 * 4.33
\* flights, which is above 0; the revenue is exactly 0 when the same call is made
\* without a business fare.
C6_FreeEconomyFareLeavesBusinessRevenue ==
    /\ IsScenarioB(I(875)) =>
        /\ result.ret.kind = "ok"
        /\ RLe(result.ret.expected_load_factor, R(95, 100))
        /\ result.ret.monthly_revenue =
            RMul(RMul(RMul(RMul(I(180), result.ret.expected_load_factor), R(15, 100)),
                      I(875)), R(7 * 433, 100))
        /\ RLt(I(0), result.ret.monthly_revenue)
    /\ IsScenarioB(None) =>
        /\ result.ret.kind = "ok"
        /\ RLe(result.ret.expected_load_factor, R(95, 100))
        /\ result.ret.monthly_revenue = I(0)

C6_Witness == IsScenarioB(I(875)) /\ result.ret.kind = "ok"

(***************************************************************************)
(* Properties of the profitability analyzer and the cost model.            *)
(***************************************************************************)
\* C7: for a stored route, calculate_route_profitability never divides by zero,
\* and every numeric field of a report it returns is finite.
C7_ReportIsFinite ==
    IsProfitabilityCall /\ HasRoute(result.call.route_id) =>
        /\ result.ret.kind # "raise"
        /\ result.ret.kind = "ok" =>
            /\ IsFinite(result.ret.revenue.monthly_revenue)
            /\ IsFinite(result.ret.costs.monthly_total)
            /\ IsFinite(result.ret.profitability.monthly_profit)
            /\ IsFinite(result.ret.profitability.profit_margin)
            /\ IsFinite(result.ret.profitability.breakeven_load_factor)
            /\ IsFinite(result.ret.profitability.roi_monthly)
            /\ IsFinite(result.ret.efficiency.cost_per_available_seat_mile)
            /\ IsFinite(result.ret.efficiency.revenue_per_available_seat_mile)

\* a negative weekly frequency, a passenger capacity of 0 or a negative fare
InvalidInput(call) ==
    \/ call.frequency_weekly < 0
    \/ SpecGet(call.aircraft_spec, "passenger_capacity", 180) = 0
    \/ RLt(call.fare_economy, I(0))

\* C8: calculate_route_profitability called with invalid input returns a
\* structured error: it neither raises nor returns an ordinary report.
C8_InvalidInputIsAnError ==
    IsProfitabilityCall /\ InvalidInput(result.call) => result.ret.kind = "error"

\* the route id is unknown, or an endpoint of the route is not in airports
Unresolvable(route_id) ==
    \/ ~HasRoute(route_id)
    \/ routes[route_id].departure_airport \notin DOMAIN airports
    \/ routes[route_id].arrival_airport \notin DOMAIN airports

\* C9: calculate_route_profitability called with an unknown route id, or with a
\* route one of whose airports is missing, returns a result holding an "error"
\* entry and no revenue, costs or profitability section; it does not raise.
C9_UnresolvedRouteIsAnError ==
    IsProfitabilityCall /\ Unresolvable(result.call.route_id) =>
        /\ result.ret.kind = "error"
        /\ DOMAIN result.ret = {"kind", "error"}

\* the call was made on a stored route whose destination airport is missing
C9_Witness ==
    /\ IsProfitabilityCall
    /\ HasRoute(result.call.route_id)
    /\ routes[result.call.route_id].arrival_airport \notin DOMAIN airports
    /\ result.ret.kind = "error"

\* C10: calculate_operating_costs called with an unknown route id, or with a
\* route one of whose airports is missing, reports an error result: it neither
\* raises nor returns cost figures.
C10_CostsOfUnresolvedRouteIsAnError ==
    result.op = "calculate_operating_costs" /\ Unresolvable(result.call.route_id) =>
        result.ret.kind = "error"

(***************************************************************************)
(* Properties of the route assignments.                                    *)
(***************************************************************************)
\* C11: in every state reached from an empty route_assignments table by
\* assign_aircraft_to_route, api_assign_route, api_remove_assignment and
\* api_cleanup_assignments calls made one after the other, each aircraft id has
\* at most one row with active = 1.
C11_OneActiveAssignmentPerAircraft ==
    \A aircraft_id \in AircraftIds : Cardinality(ActiveAssignments(aircraft_id)) <= 1

\* an assignment has been refused because the aircraft holds an active one, next
\* to an earlier assignment of it that was removed
C11_Witness ==
    /\ result.op = "assign_aircraft_to_route"
    /\ result.ret.kind = "ok"
    /\ result.ret.message = "Aircraft is already assigned to another route"
    /\ Cardinality(ActiveAssignments(result.call.aircraft_id)) = 1
    /\ \E id \in DOMAIN route_assignments :
        /\ route_assignments[id].aircraft_id = result.call.aircraft_id
        /\ route_assignments[id].active = 0

CalculationOps ==
    {"calculate_route_revenue", "calculate_operating_costs",
     "calculate_route_profitability", "optimize_aircraft_assignment"}

\* C13: a step of calculate_route_revenue, calculate_operating_costs,
\* calculate_route_profitability or optimize_aircraft_assignment leaves the
\* airports, routes, route_extended_data, route_assignments and fleet tables
\* unchanged, whether it returns a report or an error.
C13_CalculationsWriteNothing ==
    [][(result.op = "none" /\ result'.op \in CalculationOps) =>
        UNCHANGED <<airports, routes, route_extended_data, route_assignments, fleet>>]_vars

\* a calculation has returned an error while an assignment row is stored
C13_Witness ==
    /\ result.op = "calculate_route_profitability"
    /\ result.ret.kind = "error"
    /\ route_assignments # NoAssignments
    /\ fleet # <<>>

\* C14: the list returned by optimize_aircraft_assignment is in non-increasing
\* order of monthly_profit: each entry's profit is >= the next entry's.
C14_RankedByProfitDescending ==
    IsOptimizerReturn =>
        \A i \in 1..(Len(Recommendations) - 1) :
            RLe(Recommendations[i + 1].monthly_profit, Recommendations[i].monthly_profit)

\* the aircraft handed in first is ranked second, behind a strictly better one
C14_Witness ==
    /\ IsOptimizerReturn
    /\ Len(Recommendations) = 2
    /\ Recommendations[2].aircraft_id = result.call.available_aircraft[1].id
    /\ RLt(Recommendations[2].monthly_profit, Recommendations[1].monthly_profit)

\* C15: with a non-empty aircraft list and an empty candidate-route list
\* optimize_aircraft_assignment returns the empty list and no error.
C15_NoRoutesNoRecommendations ==
    (/\ result.op = "optimize_aircraft_assignment"
     /\ result.call.available_aircraft # <<>>
     /\ result.call.available_routes = <<>>)
    => (result.ret.kind = "ok" /\ result.ret.list = <<>>)

\* two aircraft and no candidate route
C15_Witness ==
    /\ IsOptimizerReturn
    /\ Len(result.call.available_aircraft) = 2
    /\ result.call.available_routes = <<>>
    /\ Recommendations = <<>>

CostComponents == {"fuel", "crew", "airport_fees", "maintenance"}

\* the sum of the four components of a cost dictionary
ComponentSum(costs) ==
    RAdd(RAdd(RAdd(costs.fuel, costs.crew), costs.airport_fees), costs.maintenance)

\* an existing route with both airports stored, an aircraft spec with positive
\* cruise speed and non-negative fuel burn, crew and capital value, frequency >= 0
ValidCostInput(call) ==
    /\ HasRoute(call.route_id)
    /\ routes[call.route_id].distance_nm >= 0
    /\ ~AirportDataMissing(AirportCostRows(routes[call.route_id].departure_airport,
                                           routes[call.route_id].arrival_airport))
    /\ SpecGet(call.aircraft_spec, "cruise_speed", 450) > 0
    /\ SpecGet(call.aircraft_spec, "fuel_burn_per_hour", 800) >= 0
    /\ SpecGet(call.aircraft_spec, "crew_required", 2) >= 0
    /\ SpecGet(call.aircraft_spec, "base_price", 100) >= 0
    /\ call.frequency_weekly >= 0

C17_RevenueIsNonNegative ==
    IsRevenueReturn => RLe(I(0), result.ret.monthly_revenue)

(***************************************************************************)
(* Properties of calculate_distance.                                       *)
(***************************************************************************)
IsDistanceCall == result.op = "calculate_distance"

\* C18: for airports a, b of the reference table calculate_distance(a, b) is a
\* non-negative integer, equals calculate_distance(b, a), and is 0 when a = b.
C18_DistanceIsSymmetric ==
    (/\ IsDistanceCall
     /\ result.call.origin_icao \in DOMAIN airports
     /\ result.call.dest_icao \in DOMAIN airports)
    => /\ result.ret.kind = "ok"
       /\ result.ret.value \in Nat
       /\ result.ret = calculate_distance(result.call.dest_icao, result.call.origin_icao)
       /\ (result.call.origin_icao = result.call.dest_icao => result.ret.value = 0)

\* the distance from an airport of western longitude to one of eastern longitude
\* and of another latitude has been computed
C18_Witness ==
    /\ IsDistanceCall
    /\ result.call.origin_icao = "KJFK"
    /\ result.call.dest_icao = "RJTT"
    /\ result.ret.kind = "ok"
    /\ result.ret.value > 5000

\* C19: calculate_distance returns 0 without raising whenever the origin code or
\* the destination code (or both) is absent from the airports table.
C19_UnknownAirportGivesZero ==
    (/\ IsDistanceCall
     /\ \/ result.call.origin_icao \notin DOMAIN airports
        \/ result.call.dest_icao \notin DOMAIN airports)
    => result.ret = [kind |-> "ok", value |-> 0]

\* the origin is stored and the destination is not
C19_Witness ==
    /\ IsDistanceCall
    /\ result.call.origin_icao \in DOMAIN airports
    /\ result.call.dest_icao \notin DOMAIN airports
    /\ result.ret = [kind |-> "ok", value |-> 0]

(***************************************************************************)
(* Properties of the pilots table.                                         *)
(***************************************************************************)
\* C20: on the test connection, left open, fetch_pilot_data(connection=c)
\* returns one record per row that add_pilot inserted (none for the empty
\* table), each with the pilot's name in position 1, and the connection is
\* still open afterwards.
C20_FetchReturnsAddedPilots ==
    (/\ result.op = "fetch_pilot_data"
     /\ result.call.keyword = "connection"
     /\ connection = "open")
    => /\ result.ret.kind = "ok"
       /\ Len(result.ret.value) = Len(pilots)
       /\ \A i \in 1..Len(pilots) : result.ret.value[i][2] = pilots[i][2]

(***************************************************************************)
(* Further properties of the route assignments.                            *)
(***************************************************************************)
\* the assign_aircraft_to_route call of this step is for a stored route and an
\* aircraft of the fleet table whose assignments have all been removed
IsReassignment ==
    /\ result = NoCall
    /\ result'.op = "assign_aircraft_to_route"
    /\ result'.call.route_id \in DOMAIN routes
    /\ result'.call.aircraft_id \in DOMAIN fleet
    /\ ActiveAssignments(result'.call.aircraft_id) = {}
    /\ \E id \in DOMAIN route_assignments :
        route_assignments[id].aircraft_id = result'.call.aircraft_id

\* C23: an assign_aircraft_to_route call for an aircraft whose active
\* assignment was removed (active = 0), to any stored route, on any day,
\* returns (True, message) without raising and leaves the aircraft with an
\* active assignment.
C23_ReassignAfterRemovalSucceeds ==
    [][IsReassignment =>
        /\ result'.ret.kind = "ok"
        /\ result'.ret.success
        /\ \E id \in DOMAIN route_assignments' :
            /\ route_assignments'[id].aircraft_id = result'.call.aircraft_id
            /\ route_assignments'[id].active = 1]_vars

\* the active rows of the aircraft of the api_assign_route call just answered
PersistedRows ==
    {route_assignments[id] : id \in ActiveAssignments(result.call.aircraft_id)}

\* C27: after api_assign_route has answered success for a frequency of 7, 14
\* or 21 and fares, the aircraft's active row has that frequency_weekly, those
\* fares, and one departure time per weekly flight.
C27_AssignmentKeepsRecommendation ==
    (/\ result.op = "api_assign_route"
     /\ result.ret.success)
    => \A row \in PersistedRows :
        /\ row.route_id = result.call.route_id
        /\ row.frequency_weekly = result.call.frequency
        /\ Len(row.departure_times) = result.call.frequency
        /\ row.fare_economy = I(250)
        /\ row.fare_business = I(875)

\* C28: an assign_aircraft_to_route step that returns (False, message) leaves
\* route_assignments and the fleet rows unchanged; one that returns True adds
\* exactly one row, active, for the call's aircraft and route, and changes no
\* other row.
C28_RefusalWritesNothing ==
    [][(result = NoCall /\ result'.op = "assign_aircraft_to_route" /\ result'.ret.kind = "ok") =>
        IF result'.ret.success
        THEN /\ Cardinality(DOMAIN route_assignments' \ DOMAIN route_assignments) = 1
             /\ \A id \in DOMAIN route_assignments : route_assignments'[id] = route_assignments[id]
             /\ \A id \in DOMAIN route_assignments' \ DOMAIN route_assignments :
                 /\ route_assignments'[id].active = 1
                 /\ route_assignments'[id].aircraft_id = result'.call.aircraft_id
                 /\ route_assignments'[id].route_id = result'.call.route_id
        ELSE UNCHANGED <<route_assignments, fleet>>]_vars

\* a call for an aircraft that is not in the fleet table has been refused while
\* an active assignment is stored
C28_Witness ==
    /\ result.op = "assign_aircraft_to_route"
    /\ result.ret.kind = "ok"
    /\ result.ret.message = "Aircraft not found"
    /\ \E id \in DOMAIN route_assignments : route_assignments[id].active = 1

TierRank == [very_low |-> 1, low |-> 2, medium |-> 3, high |-> 4, very_high |-> 5]

\* the load factor of the revenue call just answered, had its route the given
\* demand tier and competition level
LoadFactorAt(base_demand, competition) ==
    ExpectedLoadFactor(base_demand, competition,
                       routes[result.call.route_id].base_ticket_price,
                       result.call.fare_economy)

\* C29: with fare, capacity and frequency fixed, the expected load factor
\* returned by calculate_route_revenue is not exceeded at any higher
\* competition level of 0..10, is the same from level 8 on, and is not
\* undercut at any higher demand tier.
C29_LoadFactorMonotone ==
    IsRevenueReturn =>
        LET tier == BaseDemand(result.call.route_id)
            level == routes[result.call.route_id].competition_level
        IN  /\ result.ret.expected_load_factor = LoadFactorAt(tier, level)
            /\ \A higher \in level..MaxCompetition :
                /\ RLe(LoadFactorAt(tier, higher), result.ret.expected_load_factor)
                /\ level >= 8 => LoadFactorAt(tier, higher) = result.ret.expected_load_factor
            /\ \A above \in DemandLevel :
                TierRank[above] >= TierRank[tier] =>
                    RLe(result.ret.expected_load_factor, LoadFactorAt(above, level))

\* a high-demand route at competition level 9: the load factor is that of level
\* 8, strictly below that of level 7 and strictly above that of tier medium
C29_Witness ==
    /\ IsRevenueReturn
    /\ BaseDemand(result.call.route_id) = "high"
    /\ routes[result.call.route_id].competition_level = 9
    /\ result.ret.expected_load_factor = LoadFactorAt("high", 8)
    /\ RLt(result.ret.expected_load_factor, LoadFactorAt("high", 7))
    /\ RLt(LoadFactorAt("medium", 9), result.ret.expected_load_factor)

(***************************************************************************)
(* Properties of the rank and achievement update.                          *)
(***************************************************************************)
IsRankUpdate == result.op = "calculate_rank_and_achievements"

\* the 'First Flight' rows of a pilot, over all airlines
FirstFlightRows(pilot_id) ==
    {i \in 1..Len(achievements) :
        achievements[i][1] = pilot_id /\ achievements[i][3] = "First Flight"}

BothAssignedSameAircraft ==
    /\ \A t \in DOMAIN threads : threads[t].pc = "done"
    /\ threads[1].call.aircraft_id = threads[2].call.aircraft_id
    /\ threads[1].call.route_id # threads[2].call.route_id

\* C22: when two concurrent assign_aircraft_to_route calls for the same aircraft
\* and two different routes have finished, whatever the order of their check
\* and insert steps, at most one returned True and the aircraft has at most
\* one active assignment.
C22_ConcurrentAssignKeepsOneActive ==
    BothAssignedSameAircraft =>
        /\ \E t \in DOMAIN threads :
            ~(threads[t].ret.kind = "ok" /\ threads[t].ret.success)
        /\ Cardinality(ActiveAssignments(threads[1].call.aircraft_id)) <= 1

\* the ids of a list of generated routes
IdsOf(rs) == {rs[i].id : i \in DOMAIN rs}

\* C24: once save_routes has persisted a newly generated list, the routes table
\* and the route_extended_data table hold exactly the routes of that list: a
\* route saved by an earlier run and absent from the list is in neither table
C24_SaveReplacesRouteSet ==
    result.op = "save_routes" =>
        /\ DOMAIN routes = IdsOf(result.call.routes)
        /\ DOMAIN route_extended_data = IdsOf(result.call.routes)

\* C25: once the airports table holds rows, constructing a RouteEconomics,
\* generating routes and saving routes leave the rows of airports, their
\* coordinates and their fees as they were
C25_AirportsReadOnlyOnceSeeded ==
    [][(DOMAIN airports # {}
        /\ result'.op \in {"RouteEconomics", "generate_routes", "save_routes"})
       => airports' = airports]_vars

====
